---------------------------- MODULE Spec2Model ----------------------------
(***************************************************************************)
(* Model of the line-indexed file loader of log_viewer                     *)
(* (src/python/core/file_loader.py, class PythonFileLoader) together with  *)
(* the file on disk it indexes.                                            *)
(*                                                                         *)
(* A file is a sequence of bytes over a small alphabet:                    *)
(*   "a"  an ASCII letter          "LF" 0x0A          "CR" 0x0D            *)
(*   "H"  0xC3, the lead byte of a two-byte UTF-8 sequence                 *)
(*   "T"  0xA9, a UTF-8 continuation byte   ("H","T" together encode one   *)
(*        character, written "E" below)                                    *)
(* Decoded text is a sequence of characters over "a", "LF", "CR", "E" and  *)
(* "U" (U+FFFD, what errors="replace" substitutes for an invalid byte).    *)
(*                                                                         *)
(* The loader is single-threaded, but the file system is not its own: the  *)
(* build of the index touches the disk twice (stat, then open/read), and   *)
(* reload() once more before that (has_changed).  Each of these accesses   *)
(* is one step of the model, so that an external writer can act between    *)
(* them.                                                                   *)
(***************************************************************************)
EXTENDS Integers, Sequences, FiniteSets, TLC

(***************************************************************************)
(* Bounds of the model.                                                    *)
(***************************************************************************)
\* longest file content of the static-file specification
MaxLen == 4
\* longest file content an external writer produces in the life-cycle specification
MaxFileLen == 2
\* largest modification time
MaxTime == 1
\* the latest modification time an advancing writer gives the file
MaxStamp == 2
\* most FileLoaderThreads the window starts
MaxThreads == 3

\* file_loader.py:54 compares the file size with 1024 * 1024.  File sizes are
\* scaled down here: a file of MMAP_THRESHOLD bytes or more is a "large" file.
MMAP_THRESHOLD == 2

Bytes == {"a", "LF", "CR", "H", "T"}
\* the bytes an external writer uses in the life-cycle specification, where the
\* claims are about the index and the cached metadata and not about decoding
WriterBytes == {"a", "LF", "CR"}

Min(a, b) == IF a < b THEN a ELSE b

\* every sequence over S of length at most n
SeqsUpTo(S, n) == UNION {[1..k -> S] : k \in 0..n}

\* s without its first k elements (s[k:])
Drop(s, k) == SubSeq(s, k + 1, Len(s))

(***************************************************************************)
(* bytes.replace(b"\r\n", b"\n")                                          *)
(***************************************************************************)
RECURSIVE Normalize(_)
Normalize(b) ==
    IF b = <<>> THEN <<>>
    ELSE IF Len(b) >= 2 /\ b[1] = "CR" /\ b[2] = "LF"
         THEN <<"LF">> \o Normalize(Drop(b, 2))
         ELSE <<b[1]>> \o Normalize(Tail(b))

(***************************************************************************)
(* content.find(b"\n", pos): the 0-based offset of the first LF at or     *)
(* after pos, or -1.                                                       *)
(***************************************************************************)
RECURSIVE Find(_, _)
Find(content, pos) ==
    IF pos >= Len(content) THEN -1
    ELSE IF content[pos + 1] = "LF" THEN pos
    ELSE Find(content, pos + 1)

(***************************************************************************)
(* _cache_from_content, as a function of the index it extends.  An index   *)
(* is [lp |-> _line_positions, n |-> _total_lines]; pos is the loop        *)
(* variable.                                                               *)
(***************************************************************************)
\* the loop recording the offset of the newline instead of the one after it
RECURSIVE CacheLoopAtNewline(_, _, _)
CacheLoopAtNewline(index, content, pos) ==
    IF pos < Len(content)
    THEN LET next_pos == Find(content, pos) IN
         IF next_pos = -1 THEN index
         ELSE CacheLoopAtNewline([lp |-> Append(index.lp, next_pos), n |-> index.n + 1],
                                 content, next_pos + 1)
    ELSE index

RECURSIVE CacheLoop(_, _, _)
CacheLoop(index, content, pos) ==
    IF pos < Len(content)
    THEN LET next_pos == Find(content, pos) IN
         IF next_pos = -1 THEN index
         ELSE CacheLoop([lp |-> Append(index.lp, next_pos + 1), n |-> index.n + 1],
                        content, next_pos + 1)
    ELSE index

CacheFromContent(index, content) == CacheLoop(index, content, 0)

(***************************************************************************)
(* "If file doesn't end with newline, count the last line"                 *)
(* (file_loader.py:68-71).  size is _file_size, the st_size of the file.   *)
(***************************************************************************)
CountLastLine(index, size) ==
    IF size > 0 /\ (index.lp = <<>> \/ index.lp[Len(index.lp)] < size)
    THEN [index EXCEPT !.n = @ + 1]
    ELSE index

(***************************************************************************)
(* The text stream read_lines opens: open("r", encoding="utf-8",           *)
(* errors="replace"), newline=None.                                        *)
(***************************************************************************)
\* bytes.decode("utf-8", errors="replace")
RECURSIVE Decode(_)
Decode(b) ==
    IF b = <<>> THEN <<>>
    ELSE IF b[1] = "H"
         THEN IF Len(b) >= 2 /\ b[2] = "T"
              THEN <<"E">> \o Decode(Drop(b, 2))
              ELSE <<"U">> \o Decode(Tail(b))
         ELSE IF b[1] = "T"
              THEN <<"U">> \o Decode(Tail(b))
              ELSE <<b[1]>> \o Decode(Tail(b))

\* universal newlines: "\r\n" and a lone "\r" both read as "\n"
RECURSIVE Translate(_)
Translate(t) ==
    IF t = <<>> THEN <<>>
    ELSE IF t[1] = "CR"
         THEN IF Len(t) >= 2 /\ t[2] = "LF"
              THEN <<"LF">> \o Translate(Drop(t, 2))
              ELSE <<"LF">> \o Translate(Tail(t))
         ELSE <<t[1]>> \o Translate(Tail(t))

\* f.seek(pos): the text from byte offset pos on (the decoder is reset)
TextFrom(raw, pos) == Translate(Decode(Drop(raw, Min(pos, Len(raw)))))

\* f.read(n): at most n characters
ReadChars(text, n) == SubSeq(text, 1, Min(n, Len(text)))

\* f.readline(): up to and including the first "\n"
RECURSIVE Readline(_)
Readline(text) ==
    IF text = <<>> THEN <<>>
    ELSE IF text[1] = "LF" THEN <<"LF">>
    ELSE <<text[1]>> \o Readline(Tail(text))

\* line.rstrip("\n")
RECURSIVE RStrip(_)
RStrip(line) ==
    IF line # <<>> /\ line[Len(line)] = "LF"
    THEN RStrip(SubSeq(line, 1, Len(line) - 1))
    ELSE line

(***************************************************************************)
(* One iteration of the loop of read_lines, for the 0-based line i.        *)
(***************************************************************************)
ReadOneLine(lp, raw, i) ==
    LET text == TextFrom(raw, lp[i + 1]) IN
    IF i + 1 < Len(lp)
    THEN RStrip(ReadChars(text, lp[i + 2] - lp[i + 1]))
    ELSE RStrip(Readline(text))

\* an end that forgets the start of the window
ReadEndOfCount(start, count, total) == Min(count, total)

\* end = min(start + count, self._total_lines)
ReadEnd(start, count, total) == Min(start + count, total)

\* read_lines without its except clause: whatever bytes there are get read
ReadLinesUnguarded(lp, total, raw, fstate, start, count) ==
    IF start < 0 \/ start >= total THEN <<>>
    ELSE [k \in 1..(ReadEnd(start, count, total) - start) |->
              ReadOneLine(lp, raw, start + k - 1)]

(***************************************************************************)
(* read_lines(start, count) of a loader with offset table lp and line      *)
(* count total, on a file with bytes raw in state fstate.                  *)
(***************************************************************************)
ReadLinesResult(lp, total, raw, fstate, start, count) ==
    IF start < 0 \/ start >= total THEN <<>>
    ELSE IF fstate # "ok" THEN <<>>
    ELSE LET end == ReadEnd(start, count, total) IN
         [k \in 1..(end - start) |-> ReadOneLine(lp, raw, start + k - 1)]

\* has_changed that lets the OSError of stat() count as a change
HasChangedOnError(fstate, current_mtime, cached_mtime) ==
    IF fstate = "missing" THEN TRUE ELSE current_mtime > cached_mtime

\* has_changed with >= for >
HasChangedOrEqual(fstate, current_mtime, cached_mtime) ==
    IF fstate = "missing" THEN FALSE ELSE current_mtime >= cached_mtime

(***************************************************************************)
(* has_changed(): a failing stat is "not changed".                         *)
(***************************************************************************)
HasChangedResult(fstate, current_mtime, cached_mtime) ==
    IF fstate = "missing" THEN FALSE ELSE current_mtime > cached_mtime

(***************************************************************************)
(* The part of _cache_line_positions after a successful stat of a          *)
(* non-empty file (file_loader.py:49-71): open, read, index, count the     *)
(* last line.  index is the index reset at line 38-39, size the st_size    *)
(* of line 43, raw the bytes the open file holds and mm the outcome of     *)
(* mmap.mmap(): "ok", "ValueError" or "OSError".  An OSError leaves the    *)
(* try block through line 73-75 with the index as it is.                   *)
(***************************************************************************)
MmapOutcomes == {"ok", "ValueError", "OSError"}

\* content = f.read().replace(b"\r\n", b"\n")   (file_loader.py:51)
ContentByRead(raw) == Normalize(raw)

\* a mapping that is indexed as it is, without the replace
ContentByMmapRaw(raw) == raw

\* mm[:].replace(b"\r\n", b"\n")   (file_loader.py:57)
ContentByMmap(raw) == Normalize(raw)

BuildFromOpenFile(index, size, raw, mm) ==
    LET content == ContentByRead(raw) IN
    IF size >= MMAP_THRESHOLD
    THEN CASE mm = "ok" ->
                [path |-> "mmap", raised |-> FALSE,
                 index |-> CountLastLine(CacheFromContent(index, ContentByMmap(raw)), size)]
           [] mm = "ValueError" ->
                [path |-> "fallback", raised |-> FALSE,
                 index |-> CountLastLine(CacheFromContent(index, content), size)]
           [] OTHER ->
                [path |-> "mmap_failed", raised |-> TRUE, index |-> index]
    ELSE [path |-> "read", raised |-> FALSE,
          index |-> CountLastLine(CacheFromContent(index, content), size)]

(***************************************************************************)
(* PythonFileLoader(path) on a readable file that nobody touches meanwhile:*)
(* the fields __init__ leaves and whether it raised.                       *)
(***************************************************************************)
ConstructOutcome(raw, mtime, mm) ==
    LET index0 == [lp |-> <<0>>, n |-> 0] IN
    IF Len(raw) = 0
    THEN [raised |-> FALSE, lp |-> index0.lp, n |-> index0.n, size |-> 0, mtime |-> mtime]
    ELSE LET b == BuildFromOpenFile(index0, Len(raw), raw, mm) IN
         [raised |-> b.raised, lp |-> b.index.lp, n |-> b.index.n,
          size |-> Len(raw), mtime |-> mtime]

(***************************************************************************)
(* State.                                                                  *)
(***************************************************************************)
VARIABLES
    file_bytes,      \* the file on disk: its bytes,
    file_mtime,      \*   its st_mtime,
    file_state,      \*   "ok", "noperm" (stat works, open fails) or "missing"
    line_positions,  \* self._line_positions
    total_lines,     \* self._total_lines
    file_size,       \* self._file_size
    last_modified,   \* self._last_modified
    pc,              \* where the loader is: "new" (not constructed), "stat" and
                     \*   "read" (inside _cache_line_positions, before its stat and
                     \*   before its open), "done" (a call has just returned),
                     \*   "idle" (between calls)
    call,            \* the call in progress or just returned
    arg,             \* <<start, count>> of that call, if it is read_lines
    lines,           \* what read_lines returned
    changed,         \* what has_changed returned
    raised,          \* whether the call raised
    path,            \* the branch the call took (what it logged)
    touched,         \* whether the file was changed from outside during the call
    before,          \* the fields as they were when the call began
    indexed,         \* the bytes the index in line_positions was built from
                     \*   (history, kept by SpecAdvancing only)
    tabs,            \* MainWindow.tab_widget: the file_path of each tab, in order
    current_tab,     \* its current index (0-based)
    loading_threads, \* MainWindow.loading_threads: path -> thread, 0 for no entry
    threads,         \* the FileLoaderThreads started so far: [path, st], st being
                     \*   "running", "loaded" or "error" (finished, signal queued)
                     \*   or "handled" (signal delivered)
    app              \* "running", or "aborted" once Qt has ended the process

disk == <<file_bytes, file_mtime, file_state>>
fields == <<line_positions, total_lines, file_size, last_modified>>
gui == <<tabs, current_tab, loading_threads, threads, app>>
loader == <<file_bytes, file_mtime, file_state, line_positions, total_lines, file_size,
            last_modified, pc, call, arg, lines, changed, raised, path, touched, before,
            indexed>>
vars == <<file_bytes, file_mtime, file_state, line_positions, total_lines, file_size,
          last_modified, pc, call, arg, lines, changed, raised, path, touched, before,
          indexed, tabs, current_tab, loading_threads, threads, app>>

\* the files the viewer is asked to show
Paths == {"p1", "p2"}

NoArg == <<0, 0>>

\* start and count values tried on a loader of at most n lines
Starts(n) == -1..n
Counts(n) == -1..(n + 1)

InitLoader ==
    /\ line_positions = <<>>
    /\ total_lines = 0
    /\ file_size = 0
    /\ last_modified = 0
    /\ pc = "new"
    /\ call = "none"
    /\ arg = NoArg
    /\ lines = <<>>
    /\ changed = FALSE
    /\ raised = FALSE
    /\ path = "none"
    /\ touched = FALSE
    /\ before = <<>>
    /\ indexed = <<>>

\* MainWindow.__init__ (main_window.py:229-258): no tab, no loading thread
InitGui ==
    /\ tabs = <<>>
    /\ current_tab = -1
    /\ loading_threads = [p \in Paths |-> 0]
    /\ threads = <<>>
    /\ app = "running"

Init ==
    /\ file_bytes \in SeqsUpTo(WriterBytes, MaxFileLen)
    /\ file_mtime \in 0..MaxTime
    /\ file_state = "ok"
    /\ InitLoader
    /\ InitGui

InitStatic ==
    /\ file_bytes \in SeqsUpTo(Bytes, MaxLen)
    /\ file_mtime = 1
    /\ file_state = "ok"
    /\ InitLoader
    /\ InitGui

\* a call begins: nothing returned yet
Enter(name, a) ==
    /\ call' = name
    /\ arg' = a
    /\ raised' = FALSE
    /\ touched' = FALSE
    /\ before' = fields
    /\ UNCHANGED <<indexed, gui>>

(***************************************************************************)
(* __init__ (file_loader.py:27-33) up to its call of _cache_line_positions.*)
(***************************************************************************)
Construct ==
    /\ pc = "new"
    /\ line_positions' = <<>>
    /\ last_modified' = 0
    /\ total_lines' = 0
    /\ file_size' = 0
    /\ Enter("init", NoArg)
    /\ path' = "none"
    /\ pc' = "stat"
    /\ UNCHANGED <<disk, lines, changed>>

\* a build that extends the index it finds instead of starting a new one
KeepIndex == [lp |-> IF line_positions = <<>> THEN <<0>> ELSE line_positions,
              n |-> total_lines]

\* self._line_positions = [0]; self._total_lines = 0   (file_loader.py:38-39)
ResetIndex == [lp |-> <<0>>, n |-> 0]

(***************************************************************************)
(* _cache_line_positions, lines 37-47: reset the index, stat the file.     *)
(***************************************************************************)
BuildStat ==
    /\ pc = "stat"
    /\ line_positions' = ResetIndex.lp
    /\ total_lines' = ResetIndex.n
    /\ IF file_state = "missing"
       THEN /\ raised' = TRUE
            /\ path' = "stat_failed"
            /\ pc' = "done"
            /\ UNCHANGED <<file_size, last_modified>>
       ELSE /\ file_size' = Len(file_bytes)
            /\ last_modified' = file_mtime
            /\ IF Len(file_bytes) = 0
               THEN /\ path' = "empty"
                    /\ pc' = "done"
               ELSE /\ pc' = "read"
                    /\ UNCHANGED path
            /\ UNCHANGED raised
    /\ UNCHANGED <<disk, call, arg, lines, changed, touched, before, gui>>

(***************************************************************************)
(* _cache_line_positions, lines 49-75: open and read the file, index it.   *)
(***************************************************************************)
BuildRead(mm) ==
    /\ pc = "read"
    /\ IF file_state # "ok"
       THEN /\ raised' = TRUE
            /\ path' = "open_failed"
            /\ UNCHANGED <<line_positions, total_lines>>
       ELSE LET b == BuildFromOpenFile([lp |-> line_positions, n |-> total_lines],
                                       file_size, file_bytes, mm) IN
            /\ raised' = b.raised
            /\ path' = b.path
            /\ line_positions' = b.index.lp
            /\ total_lines' = b.index.n
    /\ pc' = "done"
    /\ UNCHANGED <<disk, file_size, last_modified, call, arg, lines, changed, touched, before,
                   gui>>

(***************************************************************************)
(* read_lines(start, count)                                                *)
(***************************************************************************)
ReadLines(start, count) ==
    /\ pc = "idle"
    /\ Enter("read_lines", <<start, count>>)
    /\ lines' = ReadLinesResult(line_positions, total_lines, file_bytes, file_state,
                                start, count)
    /\ path' = "none"
    /\ pc' = "done"
    /\ UNCHANGED <<disk, fields, changed>>

(***************************************************************************)
(* has_changed()                                                           *)
(***************************************************************************)
HasChanged ==
    /\ pc = "idle"
    /\ Enter("has_changed", NoArg)
    /\ changed' = HasChangedResult(file_state, file_mtime, last_modified)
    /\ path' = "none"
    /\ pc' = "done"
    /\ UNCHANGED <<disk, fields, lines>>

(***************************************************************************)
(* reload(), up to its call of _cache_line_positions: has_changed() decides*)
(* between a rebuild and a return.                                         *)
(***************************************************************************)
Reload ==
    /\ pc = "idle"
    /\ Enter("reload", NoArg)
    /\ IF HasChangedResult(file_state, file_mtime, last_modified)
       THEN /\ pc' = "stat"
            /\ path' = "none"
       ELSE /\ pc' = "done"
            /\ path' = "noop"
    /\ UNCHANGED <<disk, fields, lines, changed>>

(***************************************************************************)
(* The caller has the result of the call; the loader is between calls      *)
(* again.  A constructor that raised leaves no loader.                     *)
(***************************************************************************)
Return ==
    /\ pc = "done"
    /\ pc' = IF call = "init" /\ raised THEN "new" ELSE "idle"
    /\ call' = "none"
    /\ arg' = NoArg
    /\ lines' = <<>>
    /\ changed' = FALSE
    /\ raised' = FALSE
    /\ path' = "none"
    /\ touched' = FALSE
    /\ before' = <<>>
    /\ UNCHANGED <<disk, fields, indexed, gui>>

(***************************************************************************)
(* The file system: other processes write, delete, re-create the file and  *)
(* change its permissions, at any moment except the instant a call         *)
(* returns.                                                                *)
(***************************************************************************)
External ==
    /\ pc # "done"
    /\ touched' = (touched \/ pc \in {"stat", "read"})
    /\ UNCHANGED <<fields, pc, call, arg, lines, changed, raised, path, before, indexed, gui>>

ExternalWrite(b, t) ==
    /\ file_state = "ok"
    /\ <<b, t>> # <<file_bytes, file_mtime>>
    /\ file_bytes' = b
    /\ file_mtime' = t
    /\ UNCHANGED file_state
    /\ External

ExternalDelete ==
    /\ file_state # "missing"
    /\ file_state' = "missing"
    /\ file_bytes' = <<>>
    /\ file_mtime' = 0
    /\ External

ExternalCreate(b, t) ==
    /\ file_state = "missing"
    /\ file_state' = "ok"
    /\ file_bytes' = b
    /\ file_mtime' = t
    /\ External

ExternalChmod ==
    /\ file_state # "missing"
    /\ file_state' = IF file_state = "ok" THEN "noperm" ELSE "ok"
    /\ UNCHANGED <<file_bytes, file_mtime>>
    /\ External

(***************************************************************************)
(* Specifications.  Spec: the loader and the file system side by side.     *)
(* SpecStatic: the loader on a file that nobody touches.                   *)
(***************************************************************************)
Loader(n) ==
    \/ Construct
    \/ BuildStat /\ UNCHANGED indexed
    \/ \E mm \in MmapOutcomes : BuildRead(mm) /\ UNCHANGED indexed
    \/ \E start \in Starts(n), count \in Counts(n) : ReadLines(start, count)
    \/ HasChanged
    \/ Reload
    \/ Return

FileSystem ==
    \/ \E b \in SeqsUpTo(WriterBytes, MaxFileLen), t \in 0..MaxTime : ExternalWrite(b, t)
    \/ ExternalDelete
    \/ \E b \in SeqsUpTo(WriterBytes, MaxFileLen), t \in 0..MaxTime : ExternalCreate(b, t)
    \/ ExternalChmod

Next == Loader(MaxFileLen) \/ FileSystem

Spec == Init /\ [][Next]_vars

NextStatic == Loader(MaxLen)

SpecStatic == InitStatic /\ [][NextStatic]_vars

(***************************************************************************)
(* A loader beside a writer that only rewrites the file, each time with a  *)
(* later modification time than the file had; the file is never removed    *)
(* nor made unreadable.  Here the history variable indexed follows the     *)
(* build: _cache_line_positions empties the index (lines 38-39) and fills  *)
(* it from the bytes it read (lines 49-65).                                *)
(***************************************************************************)
InitAdvancing ==
    /\ file_bytes \in SeqsUpTo(WriterBytes, MaxFileLen)
    /\ file_mtime = 0
    /\ file_state = "ok"
    /\ InitLoader
    /\ InitGui

AdvancingWrite ==
    \E b \in SeqsUpTo(WriterBytes, MaxFileLen), t \in (file_mtime + 1)..MaxStamp :
        ExternalWrite(b, t)

NextAdvancing ==
    \/ Construct
    \/ BuildStat /\ indexed' = <<>>
    \/ \E mm \in MmapOutcomes :
          BuildRead(mm) /\ indexed' = IF raised' THEN indexed ELSE file_bytes
    \/ \E start \in Starts(MaxFileLen), count \in Counts(MaxFileLen) :
          ReadLines(start, count)
    \/ HasChanged
    \/ Reload
    \/ Return
    \/ AdvancingWrite

SpecAdvancing == InitAdvancing /\ [][NextAdvancing]_vars

(***************************************************************************)
(* The window's tabs (main_window.py, MainWindow).  Every handler runs to  *)
(* its end as one step; a FileLoaderThread finishes at any moment and its  *)
(* signal is delivered at any later moment.  The loader's variables are    *)
(* left alone: what a FileLoader does to a thread or a tab is its outcome  *)
(* (built or raised), taken here as an input.                              *)
(***************************************************************************)
HasTab(ts, p) == \E i \in 1..Len(ts) : ts[i] = p

\* the first tab showing p, as the loops over range(tab_widget.count()) find it
FirstTab(ts, p) == CHOOSE i \in 1..Len(ts) : ts[i] = p /\ \A j \in 1..(i - 1) : ts[j] # p

RemoveAt(s, i) == SubSeq(s, 1, i - 1) \o SubSeq(s, i + 1, Len(s))

GuiState == [tabs |-> tabs, current |-> current_tab, loading |-> loading_threads,
             threads |-> threads]

SetGui(g) ==
    /\ tabs' = g.tabs
    /\ current_tab' = g.current
    /\ loading_threads' = g.loading
    /\ threads' = g.threads

\* add_log_view (lines 389-403): focus the tab that shows p, else start a thread
\* for p and store it under p in loading_threads
AddLogViewTo(g, p) ==
    IF HasTab(g.tabs, p)
    THEN [g EXCEPT !.current = FirstTab(g.tabs, p) - 1]
    ELSE [g EXCEPT !.loading[p] = Len(g.threads) + 1,
                   !.threads = Append(g.threads, [path |-> p, st |-> "running"])]

\* line 402 replaces the only reference to a thread that is still running: the
\* QThread object can be destroyed under its run(), which ends the process
DropsRunning(g, p) ==
    /\ ~HasTab(g.tabs, p)
    /\ g.loading[p] # 0
    /\ g.threads[g.loading[p]].st = "running"

\* the loop of monitor_directory (lines 298-301) over the directory's log files
RECURSIVE AddAll(_, _)
AddAll(g, listing) ==
    IF listing = <<>> THEN g ELSE AddAll(AddLogViewTo(g, Head(listing)), Tail(listing))

\* the directory listings: the log files in any order, none twice
Listings == {l \in SeqsUpTo(Paths, Cardinality(Paths)) :
                l # <<>> /\ \A i, j \in 1..Len(l) : i # j => l[i] # l[j]}

\* the calls of add_log_view for the paths of listing, one after the other
AddLogViews(listing) ==
    /\ app = "running"
    /\ LET g == AddAll(GuiState, listing)
       IN  /\ Len(g.threads) <= MaxThreads
           /\ \/ SetGui(g) /\ UNCHANGED app
              \/ /\ \E i \in 1..Len(listing) : DropsRunning(GuiState, listing[i])
                 /\ app' = "aborted"
                 /\ UNCHANGED <<tabs, current_tab, loading_threads, threads>>
    /\ UNCHANGED loader

\* open_file_dialog (lines 274-280)
OpenFileDialog(p) == AddLogViews(<<p>>)

\* monitor_directory (lines 290-309)
MonitorDirectory(listing) == AddLogViews(listing)

\* _handle_directory_change, "created" (lines 318-320)
DirectoryCreated(p) == AddLogViews(<<p>>)

\* FileLoaderThread.run (lines 42-49): emits file_loaded or error_occurred
ThreadRun(id, out) ==
    /\ app = "running"
    /\ id \in 1..Len(threads)
    /\ threads[id].st = "running"
    /\ threads' = [threads EXCEPT ![id].st = out]
    /\ UNCHANGED <<tabs, current_tab, loading_threads, app, loader>>

\* "if file_path in self.loading_threads: pop, quit, wait": the entry of p goes,
\* and wait() returns when that thread's run() has ended, with out
PopThread(g, p, out) ==
    IF g.loading[p] = 0 THEN g
    ELSE [g EXCEPT !.loading[p] = 0,
                   !.threads[g.loading[p]].st =
                       IF @ = "running" THEN out ELSE @]

\* _handle_file_loaded (lines 363-375); built is whether LogViewWidget(file_path),
\* which constructs a FileLoader (line 147), returned or raised
HandleFileLoaded(id, built, out) ==
    /\ app = "running"
    /\ id \in 1..Len(threads)
    /\ threads[id].st = "loaded"
    /\ LET p == threads[id].path
           delivered == [GuiState EXCEPT !.threads[id].st = "handled"]
           added == [delivered EXCEPT !.tabs = Append(@, p),
                                      !.current = IF tabs = <<>> THEN 0 ELSE @]
       IN  IF built
           THEN SetGui(PopThread(added, p, out)) /\ UNCHANGED app
           ELSE \/ SetGui(delivered) /\ UNCHANGED app
                \/ /\ app' = "aborted"
                   /\ UNCHANGED <<tabs, current_tab, loading_threads, threads>>
    /\ UNCHANGED loader

\* _handle_load_error (lines 378-387)
HandleLoadError(id, out) ==
    /\ app = "running"
    /\ id \in 1..Len(threads)
    /\ threads[id].st = "error"
    /\ SetGui(PopThread([GuiState EXCEPT !.threads[id].st = "handled"], threads[id].path, out))
    /\ UNCHANGED <<app, loader>>

\* close_tab (lines 336-360); QTabWidget picks the tab that is current afterwards
CloseTab(index, out) ==
    /\ app = "running"
    /\ index \in 1..Len(tabs)
    /\ LET removed == [GuiState EXCEPT !.tabs = RemoveAt(@, index)]
       IN  \E c \in (IF Len(tabs) = 1 THEN {-1} ELSE 0..(Len(tabs) - 2)) :
               SetGui(PopThread([removed EXCEPT !.current = c], tabs[index], out))
    /\ UNCHANGED <<app, loader>>

\* tabCloseRequested (line 243)
TabCloseRequested(index, out) == CloseTab(index, out)

\* _handle_directory_change, "deleted" (lines 328-334)
DirectoryDeleted(p, out) ==
    /\ HasTab(tabs, p)
    /\ CloseTab(FirstTab(tabs, p), out)

ThreadOutcomes == {"loaded", "error"}

InitTabs ==
    /\ file_bytes = <<>>
    /\ file_mtime = 0
    /\ file_state = "ok"
    /\ InitLoader
    /\ InitGui

NextTabs ==
    \/ \E p \in Paths : OpenFileDialog(p)
    \/ \E listing \in Listings : MonitorDirectory(listing)
    \/ \E p \in Paths : DirectoryCreated(p)
    \/ \E id \in 1..MaxThreads, out \in ThreadOutcomes : ThreadRun(id, out)
    \/ \E id \in 1..MaxThreads, built \in BOOLEAN, out \in ThreadOutcomes :
          HandleFileLoaded(id, built, out)
    \/ \E id \in 1..MaxThreads, out \in ThreadOutcomes : HandleLoadError(id, out)
    \/ \E index \in 1..MaxThreads, out \in ThreadOutcomes : TabCloseRequested(index, out)
    \/ \E p \in Paths, out \in ThreadOutcomes : DirectoryDeleted(p, out)

SpecTabs == InitTabs /\ [][NextTabs]_vars

(***************************************************************************)
(* What the properties below are stated with.                              *)
(***************************************************************************)
\* the number of "LF" in s
RECURSIVE NumLF(_)
NumLF(s) == IF s = <<>> THEN 0
            ELSE (IF s[1] = "LF" THEN 1 ELSE 0) + NumLF(Tail(s))

\* the line count the content raw should have: the newlines of the normalized
\* content, plus one for an unterminated last line
ExpectedLineCount(raw) ==
    LET c == Normalize(raw) IN
    NumLF(c) + (IF c # <<>> /\ c[Len(c)] # "LF" THEN 1 ELSE 0)

\* "\n".join(ls)
RECURSIVE Join(_)
Join(ls) == IF ls = <<>> THEN <<>>
            ELSE IF Len(ls) = 1 THEN ls[1]
            ELSE ls[1] \o <<"LF">> \o Join(Tail(ls))

\* s with at most one trailing "LF" removed
StripOneLF(s) == IF s # <<>> /\ s[Len(s)] = "LF" THEN SubSeq(s, 1, Len(s) - 1) ELSE s

\* the mmap outcome a build that logged path had
MmapOf(p) == CASE p = "fallback" -> "ValueError"
               [] p = "mmap_failed" -> "OSError"
               [] OTHER -> "ok"

Returned(name) == pc = "done" /\ call = name

\* C1: right after construction get_line_count() is the number of LF of the
\* CRLF->LF normalized content, plus one exactly when that content is non-empty
\* and does not end in LF.
C1_LineCount ==
    (Returned("init") /\ ~raised) => total_lines = ExpectedLineCount(file_bytes)

\* C2: read_lines(0, N) with N = get_line_count() returns exactly N lines, and
\* joining them with LF gives the normalized content less one trailing LF.
C2_FullListing ==
    (Returned("read_lines") /\ arg = <<0, total_lines>>) =>
        /\ Len(lines) = total_lines
        /\ Join(lines) = Decode(StripOneLF(Normalize(file_bytes)))

\* C3: read_lines(start, count) is empty when start < 0 or start >= N, and is
\* otherwise the lines start .. min(start+count, N)-1 of read_lines(0, N).
C3_Window ==
    Returned("read_lines") =>
        LET start == arg[1]
            count == arg[2]
            full == ReadLinesResult(line_positions, total_lines, file_bytes,
                                    file_state, 0, total_lines)
        IN  /\ ~raised
            /\ IF start < 0 \/ start >= total_lines
               THEN lines = <<>>
               ELSE lines = SubSeq(full, start + 1, Min(start + count, total_lines))

\* a window that starts inside the file and asks for more lines than remain
C3_Witness ==
    /\ Returned("read_lines")
    /\ arg[1] >= 1
    /\ arg[1] + arg[2] > total_lines
    /\ Len(lines) = total_lines - arg[1]
    /\ Len(lines) >= 2

\* C4: a file with CRLF line endings has the line count and the read_lines
\* results of the file holding its normalized content, and no line holds a CR.
C4_CrlfAsLf ==
    ((Returned("init") \/ Returned("read_lines")) /\ ~raised) =>
        LET norm == Normalize(file_bytes)
            n == ConstructOutcome(norm, file_mtime, "ok")
        IN  /\ total_lines = n.n
            /\ Returned("read_lines") =>
                 /\ lines = ReadLinesResult(n.lp, n.n, norm, "ok", arg[1], arg[2])
                 /\ \A i \in 1..Len(lines) : \A j \in 1..Len(lines[i]) :
                        lines[i][j] # "CR"

\* C5: a reload() of a rewritten file whose modification time has advanced
\* leaves the loader as a construction on the new file leaves it (raising
\* where the construction raises): has_changed() is false, and the line count,
\* the size and every read_lines result are those of the fresh loader.
C5_ReloadAsFresh ==
    (Returned("reload") /\ path # "noop" /\ ~touched /\ file_state = "ok") =>
        LET f == ConstructOutcome(file_bytes, file_mtime, MmapOf(path)) IN
        /\ raised = f.raised
        /\ ~HasChangedResult(file_state, file_mtime, last_modified)
        /\ ~raised =>
             /\ fields = <<f.lp, f.n, f.size, f.mtime>>
             /\ \A start \in Starts(MaxFileLen), count \in Counts(MaxFileLen) :
                  ReadLinesResult(line_positions, total_lines, file_bytes,
                                  file_state, start, count)
                  = ReadLinesResult(f.lp, f.n, file_bytes, file_state, start, count)

\* a reload that rebuilt the index of a non-empty file into a different
\* non-empty index
C5_Witness ==
    /\ Returned("reload")
    /\ path \in {"read", "mmap", "fallback"}
    /\ ~touched
    /\ ~raised
    /\ before[2] > 0
    /\ total_lines > 0
    /\ <<line_positions, total_lines>> # <<before[1], before[2]>>

\* C6: reload() while the file's modification time is not greater than the
\* cached one changes nothing: offset table, line count, size, cached
\* modification time and every read_lines result are as before the call.
C6_ReloadNoop ==
    (Returned("reload") /\ ~touched
       /\ ~(file_state # "missing" /\ file_mtime > before[4])) =>
        /\ ~raised
        /\ fields = before
        /\ \A start \in Starts(MaxFileLen), count \in Counts(MaxFileLen) :
             ReadLinesResult(line_positions, total_lines, file_bytes,
                             file_state, start, count)
             = ReadLinesResult(before[1], before[2], file_bytes, file_state,
                               start, count)

\* a reload that returned at once although the file on disk is no longer the
\* one that was indexed
C6_Witness ==
    /\ Returned("reload")
    /\ path = "noop"
    /\ file_state = "ok"
    /\ total_lines > 0
    /\ file_mtime <= last_modified
    /\ ConstructOutcome(file_bytes, file_mtime, "ok").lp # line_positions

\* C7: has_changed() is true exactly when the file can be stat'ed and its
\* modification time is strictly greater than the cached one; it never raises.
C7_HasChanged ==
    Returned("has_changed") =>
        /\ ~raised
        /\ changed = (file_state # "missing" /\ file_mtime > last_modified)

\* has_changed() answering true on a newer file
C7_Witness ==
    /\ Returned("has_changed")
    /\ changed
    /\ total_lines > 0

\* C8: a reload() whose rebuild fails because the file went away between
\* has_changed() and the rebuild's stat or open leaves offset table, line
\* count, size and cached modification time as they were.
C8_AtomicRebuild ==
    (Returned("reload") /\ path \in {"stat_failed", "open_failed"}) =>
        fields = before

\* C9: read_lines on a file that has become inaccessible returns the empty
\* sequence, does not raise, and leaves the loader's fields alone.
C9_ReadUnavailable ==
    (Returned("read_lines") /\ file_state # "ok") =>
        /\ lines = <<>>
        /\ ~raised
        /\ fields = before

\* a request for lines the index has, on a file that is gone
C9_Witness ==
    /\ Returned("read_lines")
    /\ file_state = "missing"
    /\ arg[1] >= 0
    /\ arg[1] < total_lines
    /\ arg[2] > 0

\* C10: whenever the memory mapping of a large file fails, the build falls
\* back to the full read and the construction or reload does not fail.
C10_MappingFallback ==
    ((Returned("init") \/ Returned("reload"))
       /\ path \in {"fallback", "mmap_failed"}) => ~raised

\* the index a build over the buffer content leaves, for a file of size bytes
IndexOver(content, size) ==
    CountLastLine(CacheFromContent([lp |-> <<0>>, n |-> 0], content), size)

\* C11: whichever way the build got its buffer (full read of a small file,
\* memory mapping, or the full read after a failed mapping), the offset table
\* and the line count are those that each of the ways gives for the file's
\* content, and so are the read_lines results.
C11_StrategyIndependent ==
    ((Returned("init") \/ Returned("reload"))
       /\ path \in {"read", "mmap", "fallback"} /\ ~touched) =>
        LET byRead == IndexOver(ContentByRead(file_bytes), file_size)
            byMmap == IndexOver(ContentByMmap(file_bytes), file_size)
        IN  /\ byRead = byMmap
            /\ <<line_positions, total_lines>> = <<byRead.lp, byRead.n>>
            /\ \A start \in Starts(MaxLen), count \in Counts(MaxLen) :
                 ReadLinesResult(line_positions, total_lines, file_bytes,
                                 file_state, start, count)
                 = ReadLinesResult(byRead.lp, byRead.n, file_bytes, file_state,
                                   start, count)

\* a mapped build of a file with a CRLF line ending and three table entries
C11_Witness ==
    /\ Returned("init")
    /\ path = "mmap"
    /\ Len(line_positions) >= 3
    /\ \E i \in 1..(Len(file_bytes) - 1) :
          file_bytes[i] = "CR" /\ file_bytes[i + 1] = "LF"

\* a loader exists: it is constructed, and possibly inside reload()
Constructed ==
    \/ pc = "idle"
    \/ pc = "done" /\ ~(call = "init" /\ raised)
    \/ pc \in {"stat", "read"} /\ call = "reload"

\* C13: once constructed, whatever is called and whatever happens to the file,
\* the offset table is non-empty, starts with 0 and is strictly increasing, and
\* the line count is at most its length (read_lines never indexes past it).
C13_IndexShape ==
    Constructed =>
        /\ Len(line_positions) >= 1
        /\ line_positions[1] = 0
        /\ \A i \in 1..(Len(line_positions) - 1) :
              line_positions[i] < line_positions[i + 1]
        /\ total_lines >= 0
        /\ total_lines <= Len(line_positions)

\* read_lines returning the last counted line, read at the last table entry
C13_Witness ==
    /\ Returned("read_lines")
    /\ Len(line_positions) >= 2
    /\ total_lines = Len(line_positions)
    /\ arg[1] = total_lines - 1
    /\ Len(lines) = 1


\* C12: beside a writer that only advances the modification time and keeps the
\* file readable, whenever the loader is at rest and the bytes its index was
\* built from differ from the bytes on disk, has_changed() returns true
C12_StalenessDetectable ==
    (Constructed /\ pc \in {"idle", "done"} /\ indexed # file_bytes) =>
        HasChangedResult(file_state, file_mtime, last_modified)


\* C14: no two tabs of the window show the same file_path, whatever the order of
\* add_log_view requests, thread completions and signal deliveries
C14_NoDuplicateTabs ==
    \A i, j \in 1..Len(tabs) : i # j => tabs[i] # tabs[j]

=============================================================================
